---- MODULE Spec2Model ----
(***************************************************************************)
(* State-machine model of turbustat.statistics.pca.pca: the PCA object,    *)
(* its decomposition step compute_pca, the n_eigs setter and the module    *)
(* function set_n_eigs.                                                    *)
(*                                                                         *)
(* Numbers.  The source computes in floating point.  The model computes in *)
(* exact arithmetic: eigenvalues are integers, a threshold min_eigval is   *)
(* the rational p / ThreshDen carried as its numerator p, and a quotient   *)
(* a / b is carried as the record [num |-> a, den |-> b]; den = 0 is the   *)
(* 0/0 = NaN numpy produces, for which every comparison is false.          *)
(*                                                                         *)
(* Cube.  A cube is carried as the per-channel spatial variance and mean   *)
(* of channel maps that are pairwise uncorrelated, with at most one        *)
(* channel of non-zero mean, so that the channel covariance matrix is      *)
(* diagonal with and without mean subtraction and its eigenvalues are its  *)
(* diagonal entries.                                                       *)
(*                                                                         *)
(* Optional attributes.  A Python attribute that may not exist yet is a    *)
(* sequence of length <= 1: << >> is "not set", <<v>> is the value v.      *)
(***************************************************************************)
EXTENDS Integers, Sequences, FiniteSets, TLC

(* ---- bounds of the model ---- *)
NChan == 3
MaxVar == 1
ThreshDen == 2
MaxThresh == 4
MaxEig == 2
MaxPts == 5
NSamp == 2
MaxLogCs == 2

\* The PCA object (pca.py): data and spectral_shape are set by __init__
\* (lines 50-59); decomp_only is _decomp_only (116-121), cov_matrix (127-128),
\* n_eigs is _n_eigs (72-81), total_variance and var_prop are _total_variance
\* and _var_prop (147-154), eigvals, eigvecs and mean_sub are _eigvals,
\* _eigvecs and _mean_sub (156-159).  call holds the arguments and the outcome
\* of the last call made: raised is the exception it raised, "" for none.
\*
\* spatial_width, spatial_width_error, spectral_width and spectral_width_error
\* are _spatial_width, _spatial_width_error (392-395), _spectral_width and
\* _spectral_width_error (441-444): one entry per mode, TRUE where the value is
\* finite.  fit_method, index, index_error_range, intercept,
\* intercept_error_range and samps are _fit_method (507), _index,
\* _index_error_range, _intercept, _intercept_error_range (542-548) and _samps
\* (540).  env is what the object's surroundings answer: whether the header
\* holds a beam (find_beam_width, 381 and 872), what the width estimators
\* find for each mode (383-390, 435-439) and what the two fit engines return
\* (532-539).  dist is a PCA_Distance object (942-993).
VARIABLES data, spectral_shape, decomp_only, cov_matrix, n_eigs,
          total_variance, var_prop, eigvals, eigvecs, mean_sub, call,
          spatial_width, spatial_width_error, spectral_width,
          spectral_width_error, fit_method, index, index_error_range,
          intercept, intercept_error_range, samps, env, dist

vars == <<data, spectral_shape, decomp_only, cov_matrix, n_eigs,
          total_variance, var_prop, eigvals, eigvecs, mean_sub, call,
          spatial_width, spatial_width_error, spectral_width,
          spectral_width_error, fit_method, index, index_error_range,
          intercept, intercept_error_range, samps, env, dist>>

width_state == <<spatial_width, spatial_width_error, spectral_width,
                 spectral_width_error>>

fit_state == <<fit_method, index, index_error_range, intercept,
               intercept_error_range, samps>>

pca_state == <<decomp_only, cov_matrix, n_eigs, total_variance, var_prop,
               eigvals, eigvecs, mean_sub>>

(* ---- numpy / Python helpers ---- *)
None == << >>

Some(v) == <<v>>

IsSet(a) == Len(a) = 1

Val(a) == a[1]

Min2(a, b) == IF a <= b THEN a ELSE b

Max2(a, b) == IF a >= b THEN a ELSE b

\* s[start:stop] of Python on a 0-based array: a negative bound counts from
\* the end, both bounds are clipped to the array.
PySlice(s, start, stop) ==
    LET n  == Len(s)
        lo == IF start < 0 THEN Max2(n + start, 0) ELSE Min2(start, n)
        hi == IF stop < 0 THEN Max2(n + stop, 0) ELSE Min2(stop, n)
    IN  IF hi <= lo THEN << >> ELSE SubSeq(s, lo + 1, hi)

\* s[::-1]
Reversed(s) == [i \in 1..Len(s) |-> s[Len(s) + 1 - i]]

RECURSIVE np_sum(_)
np_sum(s) == IF s = << >> THEN 0 ELSE s[1] + np_sum(Tail(s))

\* np.cumsum: running sums
np_cumsum(s) == [i \in 1..Len(s) |-> np_sum(SubSeq(s, 1, i))]

\* np.where(mask)[0]: the 0-based indices where the boolean array is true,
\* ascending
RECURSIVE WhereUpTo(_, _)
WhereUpTo(mask, n) ==
    IF n = 0 THEN << >>
    ELSE IF mask[n] THEN Append(WhereUpTo(mask, n - 1), n - 1)
         ELSE WhereUpTo(mask, n - 1)

np_where(mask) == WhereUpTo(mask, Len(mask))

\* np.argsort: the 1-based positions of s in ascending order of value, ties
\* in position order
RECURSIVE InsertIdx(_, _, _)
InsertIdx(s, order, i) ==
    IF order = << >> THEN <<i>>
    ELSE IF s[i] < s[order[1]] THEN <<i>> \o order
         ELSE <<order[1]>> \o InsertIdx(s, Tail(order), i)

RECURSIVE ArgsortUpTo(_, _)
ArgsortUpTo(s, n) ==
    IF n = 0 THEN << >> ELSE InsertIdx(s, ArgsortUpTo(s, n - 1), n)

np_argsort(s) == ArgsortUpTo(s, Len(s))

\* np.sort: ascending
np_sort(s) == LET o == np_argsort(s) IN [i \in 1..Len(s) |-> s[o[i]]]

\* a / b in floating point, kept exact; den = 0 stands for NaN
Quot(a, b) == [num |-> a, den |-> b]

\* two quotients denote the same float (both undefined, or equal values)
QSame(a, b) ==
    \/ a.den = 0 /\ b.den = 0
    \/ a.den # 0 /\ b.den # 0 /\ a.num * b.den = b.num * a.den

(* ---- the cube and its covariance matrix ---- *)
Zeros(n) == [i \in 1..n |-> 0]

\* the cubes of the model, one for every cube up to a relabelling of the
\* channels: channel variances in non-increasing order, and either no channel
\* mean or one channel whose squared mean is at least every variance
IsNonIncreasing(s) == \A i \in 1..(Len(s) - 1) : s[i] >= s[i + 1]

ChannelMeans ==
    {Zeros(NChan)}
    \cup { [i \in 1..NChan |-> IF i = c THEN MaxVar ELSE 0] : c \in 1..NChan }

Cubes ==
    { [var |-> v, mean |-> m] :
        v \in {w \in [1..NChan -> 0..MaxVar] : IsNonIncreasing(w)},
        m \in ChannelMeans }

\* var_cov_cube: entry (i, j) is the covariance of channels i and j when
\* mean_sub, else the mean of their product (covariance plus product of means)
var_cov_cube(cube, ms) ==
    [i \in 1..Len(cube.var) |->
        [j \in 1..Len(cube.var) |->
            (IF i = j THEN cube.var[i] ELSE 0)
            + (IF ms THEN 0 ELSE cube.mean[i] * cube.mean[j])]]

\* np.linalg.eigh of a diagonal matrix: eigenvalues ascending; column k of the
\* eigenvector matrix is the unit vector of channel v[k]
eigh(m) ==
    LET diag == [i \in 1..Len(m) |-> m[i][i]]
        o    == np_argsort(diag)
    IN  [v |-> o, w |-> [i \in 1..Len(m) |-> diag[o[i]]]]

(* ---- set_n_eigs ---- *)
\* a cumulative sum equal to the threshold is left out
CumulativeMask_Strict(eigenvalues, p) ==
    LET total == np_sum(eigenvalues)
        cum   == np_cumsum(eigenvalues)
    IN  [i \in 1..Len(eigenvalues) |->
            IF total > 0 THEN cum[i] * ThreshDen < p * total
            ELSE IF total < 0 THEN cum[i] * ThreshDen > p * total
            ELSE FALSE]

\* the comparison is inverted
CumulativeMask_Above(eigenvalues, p) ==
    LET total == np_sum(eigenvalues)
        cum   == np_cumsum(eigenvalues)
    IN  [i \in 1..Len(eigenvalues) |->
            IF total > 0 THEN cum[i] * ThreshDen >= p * total
            ELSE IF total < 0 THEN cum[i] * ThreshDen <= p * total
            ELSE FALSE]

\* cumulative[i] <= min_eigval for cumulative = np.cumsum(eigenvalues /
\* eigenvalues.sum()); a zero sum makes every entry NaN, which compares false
CumulativeMask(eigenvalues, p) ==
    LET total == np_sum(eigenvalues)
        cum   == np_cumsum(eigenvalues)
    IN  [i \in 1..Len(eigenvalues) |->
            IF total > 0 THEN cum[i] * ThreshDen <= p * total
            ELSE IF total < 0 THEN cum[i] * ThreshDen >= p * total
            ELSE FALSE]

\* an eigenvalue equal to the threshold is left out
ValueMask_Strict(eigenvalues, p) ==
    [i \in 1..Len(eigenvalues) |-> eigenvalues[i] * ThreshDen > p]

\* eigenvalues >= min_eigval
ValueMask(eigenvalues, p) ==
    [i \in 1..Len(eigenvalues) |-> eigenvalues[i] * ThreshDen >= p]

set_n_eigs(eigenvalues, p, method) ==
    IF method = "value"
    THEN [raised |-> "", ret |-> Len(np_where(ValueMask(eigenvalues, p)))]
    ELSE IF method = "proportion"
    THEN [raised |-> "", ret |-> Len(np_where(CumulativeMask(eigenvalues, p)))]
    ELSE [raised |-> "ValueError", ret |-> 0]

(* ---- PCA.n_eigs setter ---- *)
n_eigs_setter(value) ==
    IF value <= 0 THEN [raised |-> "ValueError", ret |-> 0]
    ELSE [raised |-> "", ret |-> value]

(* ---- PCA.compute_pca ---- *)
\* the reversal is forgotten
SortByMaximum_NoReverse(w) == np_sort(w)

\* np.sort(all_eigsvals)[::-1]
SortByMaximum(w) == Reversed(np_sort(w))

\* eigvecs[:, np.argsort(all_eigsvals)[::-1]]
SortColumns(w, v) ==
    LET o == Reversed(np_argsort(w)) IN [k \in 1..Len(v) |-> v[o[k]]]

\* the upper limit on an explicit count is not checked
SelectNEigs_NoUpperCheck(all_eigsvals, ne, mev, method, shape) ==
    IF ne.auto
    THEN LET r == set_n_eigs(all_eigsvals, Val(mev), method)
         IN  IF r.raised # "" THEN r ELSE n_eigs_setter(r.ret)
    ELSE IF ne.k = -1 THEN n_eigs_setter(shape)
    ELSE IF ne.k < -1 \/ ne.k = 0
    THEN [raised |-> "Warning", ret |-> 0]
    ELSE n_eigs_setter(ne.k)

\* the mode selection: ne is the n_eigs argument ([auto |-> TRUE] for 'auto',
\* else the integer k), mev the min_eigval argument
SelectNEigs(all_eigsvals, ne, mev, method, shape) ==
    IF ne.auto
    THEN LET r == set_n_eigs(all_eigsvals, Val(mev), method)
         IN  IF r.raised # "" THEN r ELSE n_eigs_setter(r.ret)
    ELSE IF ne.k = -1 THEN n_eigs_setter(shape)
    ELSE IF ne.k < -1 \/ ne.k > shape \/ ne.k = 0
    THEN [raised |-> "Warning", ret |-> 0]
    ELSE n_eigs_setter(ne.k)

TotalVariance(all_eigsvals, ms) ==
    IF ms THEN np_sum(all_eigsvals)
    ELSE np_sum(PySlice(all_eigsvals, 1, Len(all_eigsvals)))

\* n_eigs eigenvalues are summed from the starting index
VarProp_CountFromStart(all_eigsvals, n, ms) ==
    IF ms THEN Quot(np_sum(PySlice(all_eigsvals, 0, n)),
                    TotalVariance(all_eigsvals, ms))
    ELSE Quot(np_sum(PySlice(all_eigsvals, 1, n + 1)),
              TotalVariance(all_eigsvals, ms))

VarProp(all_eigsvals, n, ms) ==
    IF ms THEN Quot(np_sum(PySlice(all_eigsvals, 0, n)),
                    TotalVariance(all_eigsvals, ms))
    ELSE Quot(np_sum(PySlice(all_eigsvals, 1, n)),
              TotalVariance(all_eigsvals, ms))

NoCall ==
    [n_eigs |-> [k |-> 0, auto |-> TRUE], mean_sub |-> FALSE, eigenvalues |-> << >>,
     method |-> "value", raised |-> "", ret |-> 0,
     op |-> "__init__", min_eigval |-> None, done |-> TRUE, args |-> << >>, out |-> << >>]

\* the n_eigs arguments: 'auto' and the integers around the valid range
NEigsArgs ==
    {[k |-> 0, auto |-> TRUE]}
    \cup {[k |-> k, auto |-> FALSE] : k \in (-2)..(NChan + 1)}

Thresholds == 0..MaxThresh

Methods == {"value", "proportion", "other"}

compute_pca(ms, ne, mev, method) ==
    LET c == [NoCall EXCEPT !.op = "compute_pca", !.mean_sub = ms,
                            !.n_eigs = ne, !.min_eigval = mev,
                            !.method = method]
    IN
    /\ decomp_only' = Some(TRUE)
    /\ IF ne.auto /\ mev = None
       THEN /\ call' = [c EXCEPT !.raised = "ValueError"]
            /\ UNCHANGED <<cov_matrix, n_eigs, total_variance, var_prop,
                           eigvals, eigvecs, mean_sub>>
       ELSE LET cov == var_cov_cube(data, ms)
                e   == eigh(cov)
                all_eigsvals == SortByMaximum(e.w)
                vecs == SortColumns(e.w, e.v)
                sel == SelectNEigs(all_eigsvals, ne, mev, method,
                                   spectral_shape)
            IN  /\ cov_matrix' = Some(cov)
                /\ call' = [c EXCEPT !.raised = sel.raised]
                /\ IF sel.raised # ""
                   THEN UNCHANGED <<n_eigs, total_variance, var_prop,
                                    eigvals, eigvecs, mean_sub>>
                   ELSE /\ n_eigs' = Some(sel.ret)
                        /\ total_variance' =
                               Some(TotalVariance(all_eigsvals, ms))
                        /\ var_prop' = Some(VarProp(all_eigsvals, sel.ret, ms))
                        /\ eigvals' = Some(all_eigsvals)
                        /\ eigvecs' = Some(vecs)
                        /\ mean_sub' = Some(ms)
    /\ UNCHANGED <<data, spectral_shape, width_state, fit_state, env, dist>>

\* an assignment to the property on the object: pca.n_eigs = value
assign_n_eigs(value) ==
    \E r \in {n_eigs_setter(value)} :
        /\ call' = [NoCall EXCEPT !.op = "n_eigs.setter",
                                  !.args = [value |-> value],
                                  !.raised = r.raised]
        /\ n_eigs' = IF r.raised # "" THEN n_eigs ELSE Some(r.ret)
        /\ UNCHANGED <<data, spectral_shape, decomp_only, cov_matrix,
                       total_variance, var_prop, eigvals, eigvecs, mean_sub,
                       spatial_width, spatial_width_error, spectral_width,
                       spectral_width_error, fit_method, index,
                       index_error_range, intercept, intercept_error_range,
                       samps, env, dist>>

\* a direct call of the module function set_n_eigs, with the arguments the
\* caller holds in call
call_set_n_eigs ==
    LET r == set_n_eigs(call.eigenvalues, Val(call.min_eigval), call.method)
    IN  /\ call.op = "set_n_eigs"
        /\ ~call.done
        /\ call' = [call EXCEPT !.raised = r.raised, !.ret = r.ret,
                                !.done = TRUE]
        /\ UNCHANGED <<data, spectral_shape, decomp_only, cov_matrix, n_eigs,
                       total_variance, var_prop, eigvals, eigvecs, mean_sub,
                       width_state, fit_state, env, dist>>

\* what compute_pca computes from a cube, as a value: the exception it
\* raises and, without one, the attributes it stores
Decomposition(cube, ms, ne, mev, method) ==
    IF ne.auto /\ mev = None
    THEN [raised |-> "ValueError"]
    ELSE LET cov == var_cov_cube(cube, ms)
             e   == eigh(cov)
             all_eigsvals == SortByMaximum(e.w)
             sel == SelectNEigs(all_eigsvals, ne, mev, method, Len(cube.var))
         IN  [cov_matrix |-> cov,
              n_eigs |-> sel.ret,
              total_variance |-> TotalVariance(all_eigsvals, ms),
              var_prop |-> VarProp(all_eigsvals, sel.ret, ms),
              eigvals |-> all_eigsvals,
              eigvecs |-> SortColumns(e.w, e.v),
              mean_sub |-> ms,
              raised |-> sel.raised]

(* ---- eigenimages and their autocorrelations ---- *)
\* np.finfo(dtype).eps in the unit of the model's eigenvalues: an eigenvalue
\* of 1 is exactly at the floor
Eps == 1

\* the default n_eigs of noise_ACF
NoiseDefault == 0 - 10

\* the decomposition stored on the object, for the operators below
Stored ==
    [n_eigs |-> Val(n_eigs), eigvals |-> Val(eigvals),
     eigvecs |-> Val(eigvecs), mean_sub |-> Val(mean_sub)]

\* the floor is excluded
valid_eigenvectors_AboveFloor(o) ==
    np_where([i \in 1..Len(o.eigvals) |-> o.eigvals[i] > Eps])

\* PCA._valid_eigenvectors: 0-based indices of the modes at or above the floor
valid_eigenvectors(o) ==
    np_where([i \in 1..Len(o.eigvals) |-> o.eigvals[i] >= Eps])

\* PCA.eigimages(n_eigs): n is None or an integer.  modes are the 0-based
\* indices synthesized, in order; with the unit eigenvectors of the model the
\* image of a mode is the map of its channel, less its mean when mean_sub.
\* One image is returned as a 2D array, several as a 3D stack.
eigimages(o, n) ==
    LET k == IF n = None THEN o.n_eigs ELSE Val(n)
        valid == valid_eigenvectors(o)
        iterat == IF k > 0 THEN [i \in 1..k |-> i - 1]
                  ELSE PySlice(valid, k, Len(valid))
    IN  IF k = 0 \/ iterat = << >>
        THEN [raised |-> "UnboundLocalError"]
        ELSE IF \E i \in 1..Len(iterat) : iterat[i] >= Len(o.eigvecs)
        THEN [raised |-> "IndexError"]
        ELSE [raised |-> "",
              ndim |-> IF Len(iterat) = 1 THEN 2 ELSE 3,
              modes |-> iterat,
              images |-> [i \in 1..Len(iterat) |->
                            [mean_sub |-> o.mean_sub,
                             channel |-> o.eigvecs[iterat[i] + 1]]]]

\* PCA.autocorr_images(n_eigs): the loop runs over the first axis of what
\* eigimages returns, the images of a stack, the rows of a single image (on
\* which np.fft.fft2 fails).  An autocorrelation image is carried by its
\* zero-lag value, the mean square of the eigenimage: the mode's eigenvalue.
autocorr_images(o, n) ==
    LET e == eigimages(o, n)
    IN  IF e.raised # "" THEN e
        ELSE IF e.ndim = 2 THEN [raised |-> "IndexError"]
        ELSE [raised |-> "",
              ndim |-> 3,
              modes |-> e.modes,
              acors |-> [i \in 1..Len(e.modes) |-> o.eigvals[e.modes[i] + 1]]]

\* PCA.noise_ACF(n_eigs)
noise_ACF(o, n) ==
    LET k == IF n = None THEN o.n_eigs ELSE Val(n)
        acors == autocorr_images(o, Some(k))
    IN  IF acors.raised # "" THEN acors
        ELSE [raised |-> "",
              modes |-> acors.modes,
              noise_ACF |-> Quot(np_sum(acors.acors), k),
              summed |-> np_sum(acors.acors)]

\* a call of eigimages on the object
call_eigimages(n) ==
    LET c == [NoCall EXCEPT !.op = "eigimages", !.args = [n_eigs |-> n]]
    IN  /\ IF ~IsSet(eigvecs)
           THEN call' = [c EXCEPT !.raised = "AttributeError"]
           ELSE call' = [c EXCEPT !.raised = eigimages(Stored, n).raised,
                                  !.out = eigimages(Stored, n)]
        /\ UNCHANGED <<data, spectral_shape, pca_state, width_state,
                       fit_state, env, dist>>

\* a call of noise_ACF on the object
call_noise_ACF(n) ==
    LET c == [NoCall EXCEPT !.op = "noise_ACF", !.args = [n_eigs |-> n]]
    IN  /\ IF ~IsSet(eigvecs)
           THEN call' = [c EXCEPT !.raised = "AttributeError"]
           ELSE call' = [c EXCEPT !.raised = noise_ACF(Stored, n).raised,
                                  !.out = noise_ACF(Stored, n)]
        /\ UNCHANGED <<data, spectral_shape, pca_state, width_state,
                       fit_state, env, dist>>

\* a call of autocorr_images on the object
call_autocorr_images(n) ==
    LET c == [NoCall EXCEPT !.op = "autocorr_images", !.args = [n_eigs |-> n]]
    IN  /\ IF ~IsSet(eigvecs)
           THEN call' = [c EXCEPT !.raised = "AttributeError"]
           ELSE \E r \in {autocorr_images(Stored, n)} :
                   call' = [c EXCEPT !.raised = r.raised, !.out = r]
        /\ UNCHANGED <<data, spectral_shape, pca_state, width_state,
                       fit_state, env, dist>>

(* ---- the size-linewidth fit ---- *)
\* number of finite points below which fit_plaw refuses to fit, and below
\* which it warns
MinPts == 2

WarnPts == 5

\* what a mode's four width values can look like: 0 is all four finite,
\* 1 to 4 is exactly one of them not finite (spatial width, spatial error,
\* spectral width, spectral error), 5 is none of them finite
ModeKinds == 0..5

\* the width arrays of a list of mode kinds
WidthsOf(kinds) ==
    [spatial_width        |-> [i \in 1..Len(kinds) |-> kinds[i] \notin {1, 5}],
     spatial_width_error  |-> [i \in 1..Len(kinds) |-> kinds[i] \notin {2, 5}],
     spectral_width       |-> [i \in 1..Len(kinds) |-> kinds[i] \notin {3, 5}],
     spectral_width_error |-> [i \in 1..Len(kinds) |-> kinds[i] \notin {4, 5}]]

\* the answers of the surroundings when nothing is asked of them: no beam in
\* the header, no mode whose spatial width either estimation method finds,
\* one-sigma results of the two fit engines in hundredths (index) and in
\* decades (log10 of the intercept)
DefaultEnv ==
    [beam   |-> FALSE,
     good   |-> [contour |-> 0, fit |-> 0],
     odr    |-> [params |-> <<200, 0>>, errors |-> <<5, 1>>],
     bayes  |-> [samps  |-> <<(<<66, 200>>), (<<0, 1>>)>>,
                 params |-> <<66, 1>>,
                 errors |-> <<(<<60, 70>>), (<<0, 2>>)>>]]

\* np.vstack([params - errors, params + errors]).T : one (low, high) row per
\* parameter
ErrorRanges(params, errors) ==
    [i \in 1..Len(params) |-> <<params[i] - errors[i], params[i] + errors[i]>>]

\* the length numpy broadcasts arrays of these lengths to, 0 - 1 when it
\* cannot
BroadcastLen(lens) ==
    LET m == CHOOSE x \in lens : \A y \in lens : y <= x
    IN  IF \A y \in lens : y \in {1, m} THEN m ELSE 0 - 1

\* a[i] of an array broadcast to a longer one
At(a, i) == IF Len(a) = 1 THEN a[1] ELSE a[i]

\* are_finite of fit_plaw: the product of the four isfinite masks
AreFinite(sw, swe, vw, vwe) ==
    [i \in 1..BroadcastLen({Len(sw), Len(swe), Len(vw), Len(vwe)}) |->
        At(vw, i) /\ At(sw, i) /\ At(swe, i) /\ At(vwe, i)]

\* the outcome of the point count of fit_plaw: the exception it raises and
\* whether it warns
PointCheck_WarnAtFive(num_pts) ==
    [raised |-> IF num_pts < MinPts THEN "Warning" ELSE "",
     warned |-> num_pts >= MinPts /\ num_pts <= WarnPts]

PointCheck(num_pts) ==
    [raised |-> IF num_pts < MinPts THEN "Warning" ELSE "",
     warned |-> num_pts >= MinPts /\ num_pts < WarnPts]

\* the width arrays and the fit stored on the object
Widths ==
    [spatial_width |-> spatial_width,
     spatial_width_error |-> spatial_width_error,
     spectral_width |-> spectral_width,
     spectral_width_error |-> spectral_width_error]

Fit ==
    [fit_method |-> fit_method, index |-> index,
     index_error_range |-> index_error_range, intercept |-> intercept,
     intercept_error_range |-> intercept_error_range, samps |-> samps]

\* PCA.fit_plaw(fit_method) past its first statement, as a value: w are the
\* stored width arrays, old the stored fit, e the surroundings; the result is
\* the exception raised, what the call reports and the fit stored afterwards.
\* The intercept 10 ** params[1] is carried by its exponent params[1].
FitResult(w, m, e, old) ==
    IF m # "odr" /\ m # "bayes"
    THEN [raised |-> "TypeError", out |-> << >>, fit |-> old]
    ELSE
    LET recorded == [old EXCEPT !.fit_method = Some(m)]
    IN
    IF \E a \in {w.spatial_width, w.spatial_width_error, w.spectral_width,
                 w.spectral_width_error} : ~IsSet(a)
    THEN [raised |-> "AttributeError", out |-> << >>, fit |-> recorded]
    ELSE
    LET sw  == Val(w.spatial_width)
        swe == Val(w.spatial_width_error)
        vw  == Val(w.spectral_width)
        vwe == Val(w.spectral_width_error)
        lens == {Len(sw), Len(swe), Len(vw), Len(vwe)}
    IN
    IF BroadcastLen(lens) < 0
    THEN [raised |-> "ValueError", out |-> << >>, fit |-> recorded]
    ELSE
    LET are_finite == AreFinite(sw, swe, vw, vwe)
        num_pts == Len(vw) - Len(np_where([i \in 1..Len(are_finite) |->
                                              ~are_finite[i]]))
        chk == PointCheck(num_pts)
        o == [num_pts |-> num_pts, warned |-> chk.warned,
              kept |-> np_where(are_finite)]
    IN
    IF chk.raised # ""
    THEN [raised |-> chk.raised, out |-> o, fit |-> recorded]
    ELSE IF Cardinality(lens) > 1
    THEN [raised |-> "IndexError", out |-> o, fit |-> recorded]
    ELSE
    LET params == IF m = "odr" THEN e.odr.params ELSE e.bayes.params
        errors == IF m = "odr"
                  THEN ErrorRanges(e.odr.params, e.odr.errors)
                  ELSE e.bayes.errors
    IN  [raised |-> "",
         out |-> o,
         fit |-> [fit_method |-> Some(m),
                  index |-> Some(params[1]),
                  index_error_range |-> Some(errors[1]),
                  intercept |-> Some(params[2]),
                  intercept_error_range |-> Some(errors[2]),
                  samps |-> IF m = "odr" THEN old.samps
                            ELSE Some(e.bayes.samps)]]

\* the fit attributes after a call
StoreFit(f) ==
    /\ fit_method' = f.fit_method
    /\ index' = f.index
    /\ index_error_range' = f.index_error_range
    /\ intercept' = f.intercept
    /\ intercept_error_range' = f.intercept_error_range
    /\ samps' = f.samps

\* PCA.fit_plaw(fit_method)
fit_plaw(m) ==
    \E r \in {FitResult(Widths, m, env, Fit)} :
        /\ decomp_only' = Some(FALSE)
        /\ call' = [NoCall EXCEPT !.op = "fit_plaw",
                                  !.args = [fit_method |-> m],
                                  !.raised = r.raised, !.out = r.out]
        /\ StoreFit(r.fit)
        /\ UNCHANGED <<data, spectral_shape, cov_matrix, n_eigs,
                       total_variance, var_prop, eigvals, eigvecs, mean_sub,
                       width_state, env, dist>>

(* ---- the width estimates and run ---- *)
\* the decomposition stored on the object, if any
StoredIfAny == IF IsSet(eigvecs) THEN Some(Stored) ELSE None

\* beam_fwhm = find_beam_width(self.header) where a beam is needed and none
\* is given: the beam of the header, an exception when the header has none
ResolveBeam(needed, beam_fwhm, e) ==
    IF needed /\ beam_fwhm = None
    THEN IF e.beam THEN [raised |-> "", beam_fwhm |-> Some("header")]
         ELSE [raised |-> "ConfigurationError", beam_fwhm |-> None]
    ELSE [raised |-> "", beam_fwhm |-> beam_fwhm]

\* PCA.find_spatial_widths(method, brunt_beamcorrect, beam_fwhm) as a value,
\* on the stored decomposition o (None when there is none): the exception
\* raised and the step it comes from, the beam handed to WidthEstimate2D and
\* the widths it returns, one per autocorrelation image, finite for the modes
\* the method can estimate
SpatialResult(o, method, brunt_beamcorrect, beam_fwhm, e) ==
    LET b == ResolveBeam(brunt_beamcorrect, beam_fwhm, e)
    IN
    IF b.raised # "" THEN [raised |-> b.raised, stage |-> "beam"]
    ELSE IF ~IsSet(o)
    THEN [raised |-> "AttributeError", stage |-> "autocorr_images"]
    ELSE
    LET acors == autocorr_images(Val(o), Some(Val(o).n_eigs))
        noise == noise_ACF(Val(o), Some(NoiseDefault))
    IN
    IF acors.raised # ""
    THEN [raised |-> acors.raised, stage |-> "autocorr_images"]
    ELSE IF noise.raised # ""
    THEN [raised |-> noise.raised, stage |-> "noise_ACF"]
    ELSE [raised |-> "", noise_ACF |-> noise.noise_ACF,
          beam_fwhm |-> b.beam_fwhm,
          stage |-> "",
          width |-> [i \in 1..Len(acors.modes) |-> i <= e.good[method]],
          error |-> [i \in 1..Len(acors.modes) |-> i <= e.good[method]]]

\* PCA.autocorr_spec(n_eigs): one autocorrelation vector per eigenvector
\* 0..n-1; a single vector is 1D, on which swapaxes(0, 1) fails
autocorr_spec(o, n) ==
    LET k == IF n = None THEN o.n_eigs ELSE Val(n)
    IN  IF k <= 0 THEN [raised |-> "UnboundLocalError"]
        ELSE IF k > Len(o.eigvecs) THEN [raised |-> "IndexError"]
        ELSE IF k = 1 THEN [raised |-> "ValueError"]
        ELSE [raised |-> "", modes |-> [i \in 1..k |-> i - 1]]

\* a call of autocorr_spec on the object
call_autocorr_spec(n) ==
    LET c == [NoCall EXCEPT !.op = "autocorr_spec", !.args = [n_eigs |-> n]]
    IN  /\ IF ~IsSet(eigvecs)
           THEN call' = [c EXCEPT !.raised = "AttributeError"]
           ELSE \E r \in {autocorr_spec(Stored, n)} :
                   call' = [c EXCEPT !.raised = r.raised, !.out = r]
        /\ UNCHANGED <<data, spectral_shape, pca_state, width_state,
                       fit_state, env, dist>>

\* the pass does not need a decomposition: without one it measures two modes
SpectralResult_WithoutDecomposition(o) ==
    IF ~IsSet(o)
    THEN [raised |-> "", stage |-> "",
          width |-> <<TRUE, TRUE>>, error |-> <<TRUE, TRUE>>]
    ELSE
    LET acorr_spec == autocorr_spec(Val(o), Some(Val(o).n_eigs))
    IN  IF acorr_spec.raised # ""
        THEN [raised |-> acorr_spec.raised, stage |-> "autocorr_spec"]
        ELSE [raised |-> "", stage |-> "",
              width |-> [i \in 1..Len(acorr_spec.modes) |-> TRUE],
              error |-> [i \in 1..Len(acorr_spec.modes) |-> TRUE]]

\* PCA.find_spectral_widths() as a value: WidthEstimate1D returns one finite
\* width per autocorrelation vector
SpectralResult(o) ==
    IF ~IsSet(o) THEN [raised |-> "AttributeError", stage |-> "autocorr_spec"]
    ELSE
    LET acorr_spec == autocorr_spec(Val(o), Some(Val(o).n_eigs))
    IN  IF acorr_spec.raised # ""
        THEN [raised |-> acorr_spec.raised, stage |-> "autocorr_spec"]
        ELSE [raised |-> "", stage |-> "",
              width |-> [i \in 1..Len(acorr_spec.modes) |-> TRUE],
              error |-> [i \in 1..Len(acorr_spec.modes) |-> TRUE]]

\* PCA.find_spatial_widths
find_spatial_widths(method, brunt_beamcorrect, beam_fwhm) ==
    LET c == [NoCall EXCEPT !.op = "find_spatial_widths",
                            !.args = [method |-> method,
                                      beam_fwhm |-> beam_fwhm,
                                      brunt_beamcorrect |-> brunt_beamcorrect]]
    IN  \E r \in {SpatialResult(StoredIfAny, method, brunt_beamcorrect,
                                 beam_fwhm, env)} :
        /\ IF r.raised # ""
           THEN /\ call' = [c EXCEPT !.raised = r.raised,
                                     !.out = [stage |-> r.stage]]
                /\ UNCHANGED <<spatial_width, spatial_width_error>>
           ELSE /\ call' = [c EXCEPT !.out = [beam_fwhm |-> r.beam_fwhm,
                                              stage |-> ""]]
                /\ spatial_width' = Some(r.width)
                /\ spatial_width_error' = Some(r.error)
        /\ UNCHANGED <<data, spectral_shape, pca_state, spectral_width,
                       spectral_width_error, fit_state, env, dist>>

\* PCA.find_spectral_widths
find_spectral_widths ==
    LET c == [NoCall EXCEPT !.op = "find_spectral_widths"]
    IN  \E r \in {SpectralResult(StoredIfAny)} :
        /\ call' = [c EXCEPT !.raised = r.raised, !.out = [stage |-> r.stage]]
        /\ IF r.raised # ""
           THEN UNCHANGED <<spectral_width, spectral_width_error>>
           ELSE /\ spectral_width' = Some(r.width)
                /\ spectral_width_error' = Some(r.error)
        /\ UNCHANGED <<data, spectral_shape, pca_state, spatial_width,
                       spatial_width_error, fit_state, env, dist>>

\* the beam check is made whatever decomp_only is
BeamCheckNeeded_AlsoDecompOnly(beam_fwhm, brunt_beamcorrect, decomp) ==
    beam_fwhm = None /\ brunt_beamcorrect

\* the condition of the beam check of run
BeamCheckNeeded(beam_fwhm, brunt_beamcorrect, decomp) ==
    beam_fwhm = None /\ brunt_beamcorrect /\ ~decomp

\* PCA.run(mean_sub=ms, n_eigs=ne, decomp_only=decomp,
\* spatial_method=method, fit_method=m, beam_fwhm, brunt_beamcorrect), with
\* min_eigval and eigen_cut_method left at their defaults.  out.stage is the
\* step an exception comes from.
run(ms, ne, decomp, method, m, beam_fwhm, brunt_beamcorrect) ==
    LET c == [NoCall EXCEPT !.op = "run",
                            !.args = [decomp_only |-> decomp, n_eigs |-> ne,
                                      mean_sub |-> ms,
                                      fit_method |-> m,
                                      beam_fwhm |-> beam_fwhm,
                                      brunt_beamcorrect |-> brunt_beamcorrect,
                                      spatial_method |-> method]]
    IN
    \E b \in {ResolveBeam(BeamCheckNeeded(beam_fwhm, brunt_beamcorrect,
                                          decomp), beam_fwhm, env)},
       d \in {Decomposition(data, ms, ne, None, "value")} :
    /\ UNCHANGED <<data, spectral_shape, env, dist>>
    /\ IF b.raised # ""
       THEN /\ call' = [c EXCEPT !.raised = "ValueError",
                                 !.out = [stage |-> "beam"]]
            /\ UNCHANGED <<pca_state, width_state, fit_state>>
       ELSE IF d.raised # ""
       THEN /\ call' = [c EXCEPT !.raised = d.raised,
                                 !.out = [stage |-> "compute_pca"]]
            /\ decomp_only' = Some(TRUE)
            /\ cov_matrix' = IF ne.auto THEN cov_matrix
                             ELSE Some(d.cov_matrix)
            /\ UNCHANGED <<n_eigs, total_variance, var_prop, eigvals,
                           eigvecs, mean_sub, width_state, fit_state>>
       ELSE
       /\ cov_matrix' = Some(d.cov_matrix)
       /\ n_eigs' = Some(d.n_eigs)
       /\ total_variance' = Some(d.total_variance)
       /\ var_prop' = Some(d.var_prop)
       /\ eigvals' = Some(d.eigvals)
       /\ eigvecs' = Some(d.eigvecs)
       /\ mean_sub' = Some(d.mean_sub)
       /\ IF decomp
          THEN /\ call' = [c EXCEPT !.out = [stage |-> ""]]
               /\ decomp_only' = Some(TRUE)
               /\ UNCHANGED <<width_state, fit_state>>
          ELSE
          \E sp \in {SpatialResult(Some(d), method, brunt_beamcorrect,
                                    b.beam_fwhm, env)},
             sc \in {SpectralResult(Some(d))} :
          /\ decomp_only' = Some(FALSE)
          /\ IF sp.raised # ""
             THEN /\ call' = [c EXCEPT
                                 !.raised = sp.raised,
                                 !.out = [stage |-> "find_spatial_widths"]]
                  /\ UNCHANGED <<width_state, fit_state>>
             ELSE
             /\ spatial_width' = Some(sp.width)
             /\ spatial_width_error' = Some(sp.error)
             /\ IF sc.raised # ""
                THEN /\ call' = [c EXCEPT
                                    !.raised = sc.raised,
                                    !.out = [stage |-> "find_spectral_widths"]]
                     /\ UNCHANGED <<spectral_width, spectral_width_error,
                                    fit_state>>
                ELSE
                \E f \in {FitResult(
                             [spatial_width |-> Some(sp.width),
                              spatial_width_error |-> Some(sp.error),
                              spectral_width |-> Some(sc.width),
                              spectral_width_error |-> Some(sc.error)],
                             m, env, Fit)} :
                    /\ spectral_width' = Some(sc.width)
                    /\ spectral_width_error' = Some(sc.error)
                    /\ StoreFit(f.fit)
                    /\ call' = [c EXCEPT
                                   !.raised = f.raised,
                                   !.out = [beam_fwhm |-> sp.beam_fwhm,
                                            stage |-> IF f.raised = "" THEN ""
                                                      ELSE "fit_plaw"]]

(* ---- the gamma correction and the sonic length ---- *)
\* An index is carried in hundredths: the integer v is the index v / 100.
IndexDen == 100

\* the constants of brunt_index_correct, in hundredths
BreakIndex == 67

LowOffset == 32

LowSlope == 59

HighOffset == 3

HighSlope == 107

\* the percentiles sonic_length takes of the sampled sonic lengths
Percentiles == <<15, 85>>

\* a / b < c / d for quotients that are numbers
QLess(a, b) ==
    /\ a.den # 0
    /\ b.den # 0
    /\ a.num * a.den * b.den * b.den < b.num * b.den * a.den * a.den

\* brunt_index_correct(value), value in hundredths
brunt_index_correct_BreakInLowBranch(value) ==
    IF value <= BreakIndex
    THEN Quot(value - LowOffset, LowSlope)
    ELSE Quot(value - HighOffset, HighSlope)

brunt_index_correct(value) ==
    IF value < BreakIndex
    THEN Quot(value - LowOffset, LowSlope)
    ELSE Quot(value - HighOffset, HighSlope)

\* np.power(c_s / intercept, 1. / index), carried by its exponent of ten:
\* (log10 c_s - log10 intercept) / index, for the index q.num / q.den
PowerExponent(log_cs, log_intercept, q) ==
    Quot((log_cs - log_intercept) * q.den, q.num)

\* np.sort of an array of quotients
RECURSIVE QInsert(_, _)
QInsert(sorted, x) ==
    IF sorted = << >> THEN <<x>>
    ELSE IF QLess(x, sorted[1]) THEN <<x>> \o sorted
         ELSE <<sorted[1]>> \o QInsert(Tail(sorted), x)

RECURSIVE QSort(_)
QSort(s) ==
    IF s = << >> THEN << >>
    ELSE QInsert(QSort(SubSeq(s, 1, Len(s) - 1)), s[Len(s)])

\* np.percentile(a, q), linear interpolation: the two neighbours in the
\* sorted array and the fraction of the way from the first to the second
np_percentile(a, q) ==
    LET sorted == QSort(a)
        pos == (Len(a) - 1) * q
        k == pos \div 100
    IN  [lo   |-> sorted[k + 1],
         hi   |-> sorted[Min2(k + 2, Len(a))],
         frac |-> Quot(pos % 100, 100)]

\* the lambdas sonic_length computes from the posterior samples
AllLambds(log_cs, slopes, intercepts, idx) ==
    [i \in 1..Len(intercepts) |-> PowerExponent(log_cs, intercepts[i], idx)]

\* the property PCA.gamma
gamma ==
    LET c == [NoCall EXCEPT !.op = "gamma"]
    IN  /\ IF ~IsSet(index)
           THEN call' = [c EXCEPT !.raised = "AttributeError"]
           ELSE call' = [c EXCEPT !.out = brunt_index_correct(Val(index))]
        /\ UNCHANGED <<data, spectral_shape, pca_state, width_state,
                       fit_state, env, dist>>

\* every bound is corrected by the branch above the break
GammaErrorRange_HighBranchOnly(range) ==
    [i \in 1..Len(range) |-> Quot(range[i] - HighOffset, HighSlope)]

\* np.array([brunt_index_correct(val) for val in self.index_error_range])
GammaErrorRange(range) ==
    [i \in 1..Len(range) |-> brunt_index_correct(range[i])]

\* the property PCA.gamma_error_range
gamma_error_range ==
    LET c == [NoCall EXCEPT !.op = "gamma_error_range"]
    IN  /\ IF ~IsSet(index_error_range)
           THEN call' = [c EXCEPT !.raised = "AttributeError"]
           ELSE call' = [c EXCEPT
                            !.out = GammaErrorRange(Val(index_error_range))]
        /\ UNCHANGED <<data, spectral_shape, pca_state, width_state,
                       fit_state, env, dist>>

\* the sign of a quotient that is a number
QSign(q) ==
    IF q.num * q.den > 0 THEN 1 ELSE IF q.num * q.den < 0 THEN 0 - 1 ELSE 0

\* the sign of lambd_error = (lambd / index) * sqrt(term1 ** 2 + term2 ** 2)
\* of the ODR path: lambd is a power of a positive number and positive, the
\* root is zero when both terms are, term1 when c_s is the intercept or the
\* index its lower bound, term2 when the intercept is its lower bound
LambdErrorSign(log_cs, idx, index_low, log_intercept, log_intercept_low) ==
    LET index_err_zero == QSame(idx, index_low)
        intercept_err_zero == log_intercept = log_intercept_low
        term1_zero == log_cs = log_intercept \/ index_err_zero
        term2_zero == intercept_err_zero
    IN  IF term1_zero /\ term2_zero THEN 0 ELSE QSign(idx)

\* PCA.sonic_length(T_k, mu, use_gamma) as a value, in pixel units, on the
\* stored fit f; log_cs is log10 of the sound speed of T_k and mu in spectral
\* pixels.  The quadrature error of the ODR path is carried by the values it
\* is computed from and by its sign: the range returned is
\* (lambd - lambd_error, lambd + lambd_error).
SonicResult(f, log_cs, use_gamma) ==
    IF ~IsSet(f.index) \/ ~IsSet(f.index_error_range) \/ ~IsSet(f.intercept)
       \/ ~IsSet(f.fit_method)
    THEN [raised |-> "AttributeError", out |-> << >>]
    ELSE
    LET idx == IF use_gamma THEN brunt_index_correct(Val(f.index))
               ELSE Quot(Val(f.index), IndexDen)
        index_error_range_used ==
            IF use_gamma
            THEN GammaErrorRange(Val(f.index_error_range))
            ELSE [i \in 1..2 |-> Quot(Val(f.index_error_range)[i], IndexDen)]
        lambd == PowerExponent(log_cs, Val(f.intercept), idx)
    IN
    IF use_gamma /\ idx.num = 0
    THEN [raised |-> "ZeroDivisionError", out |-> << >>]
    ELSE IF Val(f.fit_method) = "odr"
    THEN [raised |-> "",
          out |-> [lambd |-> lambd,
                   path |-> "quadrature",
                   lambd_error_range |->
                      [index |-> idx,
                       intercept |-> Val(f.intercept),
                       index_low |-> index_error_range_used[1],
                       intercept_low |-> Val(f.intercept_error_range)[1],
                       lambd_error_sign |->
                          LambdErrorSign(log_cs, idx,
                                         index_error_range_used[1],
                                         Val(f.intercept),
                                         Val(f.intercept_error_range)[1])]]]
    ELSE IF ~IsSet(f.samps)
    THEN [raised |-> "AttributeError", out |-> << >>]
    ELSE
    LET slopes == IF use_gamma
                  THEN [i \in 1..Len(Val(f.samps)[1]) |->
                           brunt_index_correct(Val(f.samps)[1][i])]
                  ELSE [i \in 1..Len(Val(f.samps)[1]) |->
                           Quot(Val(f.samps)[1][i], IndexDen)]
        intercepts == Val(f.samps)[2]
        all_lambds == AllLambds(log_cs, slopes, intercepts, idx)
    IN  [raised |-> "",
         out |-> [lambd |-> lambd,
                  path |-> "percentile",
                  lambd_error_range |->
                     [i \in 1..2 |->
                        np_percentile(all_lambds, Percentiles[i])],
                  all_lambds |-> all_lambds]]

\* PCA.sonic_length
sonic_length(log_cs, use_gamma) ==
    \E r \in {SonicResult(Fit, log_cs, use_gamma)} :
        /\ call' = [NoCall EXCEPT !.op = "sonic_length",
                                  !.args = [log_cs |-> log_cs,
                                            use_gamma |-> use_gamma],
                                  !.raised = r.raised, !.out = r.out]
        /\ UNCHANGED <<data, spectral_shape, pca_state, width_state,
                       fit_state, env, dist>>

(* ---- PCA_Distance ---- *)
\* PCA_Distance.__init__(cube1, cube2, n_eigs, mean_sub=ms) without a
\* fiducial model: both cubes are decomposed by run(decomp_only=True)
PCA_Distance(cube1, cube2, ne, ms) ==
    IF ne.auto THEN [raised |-> "ValueError"]
    ELSE LET p1 == Decomposition(cube1, ms, ne, None, "value")
             p2 == Decomposition(cube2, ms, ne, None, "value")
         IN  IF p1.raised # "" THEN [raised |-> p1.raised]
             ELSE IF p2.raised # "" THEN [raised |-> p2.raised]
             ELSE [n_eigs |-> ne.k, mean_sub |-> ms, raised |-> "", pca1 |-> p1,
                   pca2 |-> p2, distance |-> None]

\* the eigenvalues distance_metric compares
Slicer(d, eigenvalues) ==
    IF d.mean_sub THEN PySlice(eigenvalues, 0, d.n_eigs)
    ELSE PySlice(eigenvalues, 1, d.n_eigs)

\* np.linalg.norm(a / np.sum(a) - b / np.sum(b)), carried by its square: the
\* sum of the squared differences, brought to the common denominator
NormSquared(a, b) ==
    IF Len(a) = 0 THEN Quot(0, 1)
    ELSE LET sa == np_sum(a)
             sb == np_sum(b)
         IN  Quot(np_sum([i \in 1..Len(a) |->
                            (a[i] * sb - b[i] * sa) * (a[i] * sb - b[i] * sa)]),
                  sa * sb * sa * sb)

\* PCA_Distance.distance_metric as a value
Distance(d) ==
    NormSquared(Slicer(d, d.pca1.eigvals), Slicer(d, d.pca2.eigvals))

\* the construction the caller holds in call
construct_PCA_Distance ==
    LET d == PCA_Distance(call.args.cube1, call.args.cube2, call.args.n_eigs,
                          call.args.mean_sub)
    IN  /\ call.op = "PCA_Distance"
        /\ ~call.done
        /\ call' = [call EXCEPT !.raised = d.raised, !.done = TRUE]
        /\ dist' = IF d.raised # "" THEN dist ELSE Some(d)
        /\ UNCHANGED <<data, spectral_shape, pca_state, width_state,
                       fit_state, env>>

\* PCA_Distance.distance_metric; out holds the eigenvalues the slicer takes
\* of each pipeline, which are then normalized
distance_metric ==
    /\ IsSet(dist)
    /\ call' = [call EXCEPT
                   !.op = "distance_metric",
                   !.out = [sliced1 |-> Slicer(Val(dist),
                                               Val(dist).pca1.eigvals),
                            sliced2 |-> Slicer(Val(dist),
                                               Val(dist).pca2.eigvals)]]
    /\ dist' = Some([Val(dist) EXCEPT !.distance = Some(Distance(Val(dist)))])
    /\ UNCHANGED <<data, spectral_shape, pca_state, width_state, fit_state,
                   env>>

(* ---- saving and loading the results ---- *)
\* the posterior samples are not among the attributes
AttrNames_WithoutSamples ==
    <<"data", "spectral_shape", "_decomp_only", "cov_matrix", "_n_eigs",
      "_total_variance", "_var_prop", "_eigvals", "_eigvecs", "_mean_sub",
      "_spatial_width", "_spatial_width_error", "_spectral_width",
      "_spectral_width_error", "_fit_method", "_index", "_index_error_range",
      "_intercept", "_intercept_error_range">>

\* the attributes of a PCA object, by their Python names
AttrNames ==
    <<"data", "spectral_shape", "_decomp_only", "cov_matrix", "_n_eigs",
      "_total_variance", "_var_prop", "_eigvals", "_eigvecs", "_mean_sub",
      "_spatial_width", "_spatial_width_error", "_spectral_width",
      "_spectral_width_error", "_fit_method", "_index", "_index_error_range",
      "_intercept", "_intercept_error_range", "_samps">>

\* the cube of an object saved without its data
NoData == [var |-> << >>, mean |-> << >>]

\* the object's attribute of a name, None when the object does not have it
Attr(name) ==
    CASE name = "data" -> Some(data)
      [] name = "spectral_shape" -> Some(spectral_shape)
      [] name = "_decomp_only" -> decomp_only
      [] name = "cov_matrix" -> cov_matrix
      [] name = "_n_eigs" -> n_eigs
      [] name = "_total_variance" -> total_variance
      [] name = "_var_prop" -> var_prop
      [] name = "_eigvals" -> eigvals
      [] name = "_eigvecs" -> eigvecs
      [] name = "_mean_sub" -> mean_sub
      [] name = "_spatial_width" -> spatial_width
      [] name = "_spatial_width_error" -> spatial_width_error
      [] name = "_spectral_width" -> spectral_width
      [] name = "_spectral_width_error" -> spectral_width_error
      [] name = "_fit_method" -> fit_method
      [] name = "_index" -> index
      [] name = "_index_error_range" -> index_error_range
      [] name = "_intercept" -> intercept
      [] name = "_intercept_error_range" -> intercept_error_range
      [] name = "_samps" -> samps

HasAttr(name) == IsSet(Attr(name))

\* the serializable structure of the object: one (name, value) entry for
\* every attribute the object has, the cube left out unless keep_data
Pickle(keep_data) ==
    LET kept == SelectSeq(AttrNames, HasAttr)
    IN  [i \in 1..Len(kept) |->
            [value |-> IF kept[i] = "data" /\ ~keep_data THEN NoData
                       ELSE Val(Attr(kept[i])),
             name  |-> kept[i]]]

\* the attribute of a name of the object rebuilt from a structure, None when
\* the structure has no entry of that name
Unpickle(file, name) ==
    IF \E i \in 1..Len(file) : file[i].name = name
    THEN Some(file[CHOOSE i \in 1..Len(file) : file[i].name = name].value)
    ELSE None

\* save_results(output_name, keep_data): the file written is held in out
save_results(keep_data) ==
    /\ call' = [NoCall EXCEPT !.op = "save_results",
                              !.args = [keep_data |-> keep_data],
                              !.out = Pickle(keep_data)]
    /\ UNCHANGED <<data, spectral_shape, pca_state, width_state, fit_state,
                   env, dist>>

\* PCA.load_results(pickle_file) of the file just written: the object of the
\* model becomes the object loaded
load_results ==
    /\ call.op = "save_results"
    /\ call' = [NoCall EXCEPT !.op = "load_results", !.args = call.args]
    /\ data' = Val(Unpickle(call.out, "data"))
    /\ spectral_shape' = Val(Unpickle(call.out, "spectral_shape"))
    /\ decomp_only' = Unpickle(call.out, "_decomp_only")
    /\ cov_matrix' = Unpickle(call.out, "cov_matrix")
    /\ n_eigs' = Unpickle(call.out, "_n_eigs")
    /\ total_variance' = Unpickle(call.out, "_total_variance")
    /\ var_prop' = Unpickle(call.out, "_var_prop")
    /\ eigvals' = Unpickle(call.out, "_eigvals")
    /\ eigvecs' = Unpickle(call.out, "_eigvecs")
    /\ mean_sub' = Unpickle(call.out, "_mean_sub")
    /\ spatial_width' = Unpickle(call.out, "_spatial_width")
    /\ spatial_width_error' = Unpickle(call.out, "_spatial_width_error")
    /\ spectral_width' = Unpickle(call.out, "_spectral_width")
    /\ spectral_width_error' = Unpickle(call.out, "_spectral_width_error")
    /\ fit_method' = Unpickle(call.out, "_fit_method")
    /\ index' = Unpickle(call.out, "_index")
    /\ index_error_range' = Unpickle(call.out, "_index_error_range")
    /\ intercept' = Unpickle(call.out, "_intercept")
    /\ intercept_error_range' = Unpickle(call.out, "_intercept_error_range")
    /\ samps' = Unpickle(call.out, "_samps")
    /\ UNCHANGED <<env, dist>>

(* ---- PCA.__init__ on the samples of a cube ---- *)
\* A sample of the input array is a float: a number, carried as num plus eps
\* times the machine epsilon of the dtype, or one of NaN, +inf and -inf.
Float(num, eps) == [num |-> num, eps |-> eps, cls |-> "number"]

NaN == [num |-> 0, eps |-> 0, cls |-> "nan"]

PosInf == [num |-> 0, eps |-> 0, cls |-> "+inf"]

NegInf == [num |-> 0, eps |-> 0, cls |-> "-inf"]

\* np.finfo(self.data.dtype).eps
FinfoEps == Float(0, 1)

np_isnan(x) == x.cls = "nan"

\* self._data[np.isnan(self.data)] = np.finfo(self.data.dtype).eps
PatchNaN(samples) ==
    [i \in 1..Len(samples) |->
        IF np_isnan(samples[i]) THEN FinfoEps ELSE samples[i]]

\* PCA.__init__(cube, n_eigs) on the construction the caller holds in call:
\* cube is the array of samples, one pixel per channel, velocity_axis whether
\* the spectral axis of its header is in velocity units
construct_PCA ==
    /\ call.op = "PCA"
    /\ ~call.done
    /\ IF ~call.args.velocity_axis
       THEN /\ call' = [call EXCEPT !.raised = "Warning", !.done = TRUE]
            /\ data' = call.args.cube
            /\ UNCHANGED spectral_shape
       ELSE /\ data' = PatchNaN(call.args.cube)
            /\ spectral_shape' = Len(call.args.cube)
            /\ call' = [call EXCEPT
                           !.raised = IF call.args.n_eigs # None
                                      THEN "DeprecationWarning" ELSE "",
                           !.done = TRUE]
    /\ UNCHANGED <<pca_state, width_state, fit_state, env, dist>>

(* ---- specifications ---- *)
\* PCA.__init__ creates no width and no fit attribute
NothingFitted ==
    /\ fit_method = None
    /\ index = None
    /\ index_error_range = None
    /\ intercept = None
    /\ intercept_error_range = None
    /\ samps = None

NothingEstimated ==
    /\ spatial_width = None
    /\ spatial_width_error = None
    /\ spectral_width = None
    /\ spectral_width_error = None
    /\ NothingFitted

\* PCA.__init__
Init ==
    /\ data \in Cubes
    /\ spectral_shape = Len(data.var)
    /\ decomp_only = None
    /\ cov_matrix = None
    /\ n_eigs = None
    /\ total_variance = None
    /\ var_prop = None
    /\ eigvals = None
    /\ eigvecs = None
    /\ mean_sub = None
    /\ call = NoCall
    /\ NothingEstimated
    /\ env = DefaultEnv
    /\ dist = None

\* the calls of compute_pca: an argument the call does not read is left at
\* its default (min_eigval and eigen_cut_method with an explicit n_eigs,
\* eigen_cut_method without min_eigval)
AutoArgs ==
    {<<None, "value">>, <<Some(0), "other">>}
    \cup {<<Some(p), m>> : p \in Thresholds, m \in {"value", "proportion"}}

ComputePca ==
    \E ms \in BOOLEAN, ne \in NEigsArgs :
        IF ne.auto
        THEN \E a \in AutoArgs : compute_pca(ms, ne, a[1], a[2])
        ELSE compute_pca(ms, ne, None, "value")

Next == ComputePca

Spec == Init /\ [][Next]_vars

\* set_n_eigs as a function of its arguments: the eigenvalue arrays are the
\* non-empty arrays of non-negative values, in any order; the initial state
\* holds the arguments of the call to come
EigArrays == UNION { [1..n -> 0..MaxEig] : n \in 1..NChan }

InitFn ==
    /\ data = [var |-> Zeros(NChan), mean |-> Zeros(NChan)]
    /\ spectral_shape = Len(data.var)
    /\ decomp_only = None
    /\ cov_matrix = None
    /\ n_eigs = None
    /\ total_variance = None
    /\ var_prop = None
    /\ eigvals = None
    /\ eigvecs = None
    /\ mean_sub = None
    /\ NothingEstimated
    /\ env = DefaultEnv
    /\ dist = None
    /\ call \in { [NoCall EXCEPT !.op = "set_n_eigs", !.eigenvalues = e,
                                  !.min_eigval = Some(p), !.method = m,
                                  !.done = FALSE] :
                     e \in EigArrays, p \in Thresholds, m \in Methods }

NextFn == call_set_n_eigs

SpecFn == InitFn /\ [][NextFn]_vars

\* fit_plaw on width arrays the caller has stored on the object itself: the
\* arrays have one entry per mode, of any of the kinds, listed in the order of
\* the kinds
IsNonDecreasing(s) == \A i \in 1..(Len(s) - 1) : s[i] <= s[i + 1]

KindLists ==
    UNION { { k \in [1..n -> ModeKinds] : IsNonDecreasing(k) } : n \in 0..MaxPts }

FitMethods == {"odr", "bayes", "other"}

InitFit ==
    /\ data = [var |-> Zeros(NChan), mean |-> Zeros(NChan)]
    /\ spectral_shape = Len(data.var)
    /\ decomp_only = None
    /\ cov_matrix = None
    /\ n_eigs = None
    /\ total_variance = None
    /\ var_prop = None
    /\ eigvals = None
    /\ eigvecs = None
    /\ mean_sub = None
    /\ call = NoCall
    /\ \/ NothingEstimated
       \/ \E k \in KindLists :
             /\ spatial_width = Some(WidthsOf(k).spatial_width)
             /\ spatial_width_error = Some(WidthsOf(k).spatial_width_error)
             /\ spectral_width = Some(WidthsOf(k).spectral_width)
             /\ spectral_width_error = Some(WidthsOf(k).spectral_width_error)
             /\ NothingFitted
    /\ env = DefaultEnv
    /\ dist = None

FitPlaw == \E m \in FitMethods : fit_plaw(m)

NextFit == FitPlaw

SpecFit == InitFit /\ [][NextFit]_vars

\* the fit, the gamma correction and the sonic length on an object whose
\* width arrays are good: the two fit engines return one of the indices of
\* IndexValues, and the MCMC engine a chain of NSamp samples
IndexValues ==
    {LowOffset - 2, LowOffset, BreakIndex - 1, BreakIndex, BreakIndex + 1,
     2 * IndexDen}

SampleSlopes == {BreakIndex - 1, BreakIndex, 2 * IndexDen}

SonicEnvs ==
    { [DefaultEnv EXCEPT
          !.odr = [params |-> <<v, 0>>, errors |-> <<1, 1>>],
          !.bayes = [samps  |-> <<sl, ic>>,
                     params |-> <<v, 1>>,
                     errors |-> <<(<<v - 1, v + 2>>), (<<0, 2>>)>>]] :
        v \in IndexValues,
        sl \in [1..NSamp -> SampleSlopes],
        ic \in [1..NSamp -> 0..1] }

InitSonic ==
    /\ data = [var |-> Zeros(NChan), mean |-> Zeros(NChan)]
    /\ spectral_shape = Len(data.var)
    /\ decomp_only = None
    /\ cov_matrix = None
    /\ n_eigs = None
    /\ total_variance = None
    /\ var_prop = None
    /\ eigvals = None
    /\ eigvecs = None
    /\ mean_sub = None
    /\ call = NoCall
    /\ spatial_width = Some(WidthsOf(<<0, 0>>).spatial_width)
    /\ spatial_width_error = Some(WidthsOf(<<0, 0>>).spatial_width_error)
    /\ spectral_width = Some(WidthsOf(<<0, 0>>).spectral_width)
    /\ spectral_width_error = Some(WidthsOf(<<0, 0>>).spectral_width_error)
    /\ NothingFitted
    /\ env \in SonicEnvs
    /\ dist = None

FitEngines == \E m \in {"odr", "bayes"} : fit_plaw(m)

SonicLength == \E l \in 1..MaxLogCs, g \in BOOLEAN : sonic_length(l, g)

NextSonic == FitEngines \/ gamma \/ gamma_error_range \/ SonicLength

SpecSonic == InitSonic /\ [][NextSonic]_vars

\* PCA_Distance on two cubes: the cubes have no channel mean or a mean in the
\* channel of largest variance; the initial state holds the arguments of the
\* construction to come
DistCubes == { c \in Cubes : \A i \in 2..NChan : c.mean[i] = 0 }

InitDist ==
    /\ data = [var |-> Zeros(NChan), mean |-> Zeros(NChan)]
    /\ spectral_shape = Len(data.var)
    /\ decomp_only = None
    /\ cov_matrix = None
    /\ n_eigs = None
    /\ total_variance = None
    /\ var_prop = None
    /\ eigvals = None
    /\ eigvecs = None
    /\ mean_sub = None
    /\ NothingEstimated
    /\ env = DefaultEnv
    /\ dist = None
    /\ call \in { [NoCall EXCEPT !.op = "PCA_Distance", !.done = FALSE,
                                  !.args = [n_eigs |-> ne, mean_sub |-> ms,
                                            cube1 |-> c1, cube2 |-> c2]] :
                     c1 \in DistCubes, c2 \in DistCubes, ne \in NEigsArgs,
                     ms \in BOOLEAN }

NextDist == construct_PCA_Distance \/ distance_metric

SpecDist == InitDist /\ [][NextDist]_vars

\* the eigenimages and the noise ACF of a decomposed cube
ImageArgs == {None} \cup { Some(k) : k \in (0 - NChan - 1)..(NChan + 1) }

NoiseArgs == {None, Some(NoiseDefault), Some(0 - 2), Some(2)}

Decompose ==
    \E ms \in BOOLEAN, k \in {0 - 1} \cup 1..NChan :
        compute_pca(ms, [k |-> k, auto |-> FALSE], None, "value")

Eigimages == \E n \in ImageArgs : call_eigimages(n)

NoiseACF == \E n \in NoiseArgs : call_noise_ACF(n)

AutocorrImages == \E n \in ImageArgs : call_autocorr_images(n)

AutocorrSpec == \E n \in ImageArgs : call_autocorr_spec(n)

NextImg ==
    Decompose \/ Eigimages \/ NoiseACF \/ AutocorrImages \/ AutocorrSpec

SpecImg == Init /\ [][NextImg]_vars

\* the whole pipeline on a cube of uncorrelated channels without mean, all
\* of full variance but possibly the last: the header has a beam or not, the
\* 'contour' method estimates the spatial width of every mode and the 'fit'
\* method of every mode or of none
PipeCubes ==
    { c \in Cubes : /\ c.mean = Zeros(NChan)
                    /\ \A i \in 1..(NChan - 1) : c.var[i] = MaxVar
                    /\ c.var[NChan] \in {0, MaxVar} }

PipeEnvs ==
    { [DefaultEnv EXCEPT !.beam = b, !.good = [contour |-> NChan, fit |-> g]] :
        b \in BOOLEAN, g \in {0, NChan} }

SpatialMethods == {"contour", "fit"}

\* brunt_beamcorrect with the beam_fwhm given to it
BeamArgs ==
    { <<FALSE, None>>, <<TRUE, None>>, <<TRUE, Some("argument")>> }

InitPipe ==
    /\ data \in PipeCubes
    /\ spectral_shape = Len(data.var)
    /\ decomp_only = None
    /\ cov_matrix = None
    /\ n_eigs = None
    /\ total_variance = None
    /\ var_prop = None
    /\ eigvals = None
    /\ eigvecs = None
    /\ mean_sub = None
    /\ call = NoCall
    /\ NothingEstimated
    /\ env \in PipeEnvs
    /\ dist = None

\* run with decomp_only reads neither the spatial method nor the beam: it is
\* called with the defaults (beam correction requested, no beam given)
Run ==
    \E k \in {0 - 1, 2} :
        \/ run(FALSE, [k |-> k, auto |-> FALSE], TRUE, "contour", "odr",
               None, TRUE)
        \/ \E method \in SpatialMethods, b \in BeamArgs :
              run(FALSE, [k |-> k, auto |-> FALSE], FALSE, method, "odr",
                  b[2], b[1])

FindSpatialWidths ==
    \E method \in SpatialMethods, b \in BeamArgs :
        find_spatial_widths(method, b[1], b[2])

SonicLengthOfFit == \E g \in BOOLEAN : sonic_length(1, g)

NextPipe ==
    Run \/ FindSpatialWidths \/ find_spectral_widths \/ FitPlaw
        \/ SonicLengthOfFit

SpecPipe == InitPipe /\ [][NextPipe]_vars

\* the construction of a PCA object from an array of samples: each sample is
\* a number or one of the three non-finite floats; the initial state holds
\* the arguments of the construction to come
SampleValues == { Float(v, 0) : v \in 0..MaxVar } \cup {NaN, PosInf, NegInf}

InitSamples ==
    /\ data = << >>
    /\ spectral_shape = 0
    /\ decomp_only = None
    /\ cov_matrix = None
    /\ n_eigs = None
    /\ total_variance = None
    /\ var_prop = None
    /\ eigvals = None
    /\ eigvecs = None
    /\ mean_sub = None
    /\ NothingEstimated
    /\ env = DefaultEnv
    /\ dist = None
    /\ call \in { [NoCall EXCEPT !.op = "PCA", !.done = FALSE,
                                  !.args = [n_eigs |-> n, cube |-> c,
                                            velocity_axis |-> v]] :
                     c \in [1..NChan -> SampleValues], v \in BOOLEAN,
                     n \in {None, Some(2)} }

NextSamples == construct_PCA

SpecSamples == InitSamples /\ [][NextSamples]_vars

\* the life of one object: decompositions that succeed and that are refused,
\* assignments to n_eigs, the two width passes, the fit and run, in any order,
\* on a cube without beam information
InitLife == InitPipe /\ ~env.beam

ComputePcaLife ==
    \/ \E k \in {0, 2, 0 - 1} :
          compute_pca(FALSE, [k |-> k, auto |-> FALSE], None, "value")
    \/ \E p \in {0, MaxThresh} :
          compute_pca(FALSE, [k |-> 0, auto |-> TRUE], Some(p), "value")

AssignNEigs == \E value \in {0, 1, NChan + 1} : assign_n_eigs(value)

FindSpatialWidthsLife ==
    \E method \in SpatialMethods : find_spatial_widths(method, FALSE, None)

FitPlawLife == fit_plaw("odr")

RunLife ==
    \E decomp \in BOOLEAN :
        run(FALSE, [k |-> 2, auto |-> FALSE], decomp, "contour", "odr", None,
            FALSE)

NextLife ==
    ComputePcaLife \/ AssignNEigs \/ FindSpatialWidthsLife
        \/ find_spectral_widths \/ FitPlawLife \/ RunLife

SpecLife == InitLife /\ [][NextLife]_vars

\* a pipeline that is run, fitted again, saved with or without its cube and
\* loaded back; run is not called on an object loaded without its cube
InitSave == InitPipe /\ ~env.beam

RunSave ==
    /\ data # NoData
    /\ \E k \in {0 - 1, 2}, method \in SpatialMethods :
          run(FALSE, [k |-> k, auto |-> FALSE], FALSE, method, "odr", None,
              FALSE)

FitPlawSave == \E m \in {"odr", "bayes"} : fit_plaw(m)

SaveResults == \E keep_data \in BOOLEAN : save_results(keep_data)

NextSave ==
    RunSave \/ FitPlawSave \/ SaveResults \/ load_results \/ SonicLengthOfFit

SpecSave == InitSave /\ [][NextSave]_vars

(* ---- properties ---- *)
Succeeded == call.op = "compute_pca" /\ call.raised = ""

\* the sum of e[i] over the 1-based positions lo..hi that exist
RECURSIVE SumRange(_, _, _)
SumRange(e, lo, hi) ==
    IF lo > hi \/ lo > Len(e) THEN 0 ELSE e[lo] + SumRange(e, lo + 1, hi)

\* C1: once compute_pca has stored eigenvalues, they are in non-increasing
\* order: eigvals[i] >= eigvals[i+1] for every valid i.
C1_EigvalsNonIncreasing ==
    IsSet(eigvals) =>
        \A i \in 1..(Len(Val(eigvals)) - 1) :
            Val(eigvals)[i] >= Val(eigvals)[i + 1]

\* a decomposition whose covariance diagonal was not already in order
C1_Witness ==
    /\ Succeeded
    /\ Val(eigvals)[1] > Val(eigvals)[NChan]
    /\ Val(cov_matrix)[1][1] < Val(cov_matrix)[NChan][NChan]

\* C2: compute_pca with an explicit integer n_eigs = k fails when k is 0,
\* below -1 or above the number of channels; for 1 <= k <= number of channels
\* it sets n_eigs to k; k = -1 sets n_eigs to the number of channels.
C2_ExplicitNEigs ==
    (call.op = "compute_pca" /\ ~call.n_eigs.auto) =>
        LET k == call.n_eigs.k
        IN  /\ (k = 0 \/ k < -1 \/ k > spectral_shape) => call.raised # ""
            /\ (1 <= k /\ k <= spectral_shape) =>
                   (call.raised = "" /\ n_eigs = Some(k))
            /\ (k = -1) => (call.raised = "" /\ n_eigs = Some(spectral_shape))

\* an explicit count above the channel count is rejected on a decomposed object
C2_Witness ==
    /\ call.op = "compute_pca"
    /\ ~call.n_eigs.auto
    /\ call.n_eigs.k > spectral_shape
    /\ call.raised = "Warning"
    /\ IsSet(n_eigs)

\* C3: set_n_eigs with method 'value' returns exactly the number of
\* eigenvalues that are >= min_eigval; an eigenvalue equal to min_eigval counts.
C3_ValueCount ==
    (call.op = "set_n_eigs" /\ call.done /\ call.method = "value") =>
        /\ call.raised = ""
        /\ call.ret = Cardinality({i \in 1..Len(call.eigenvalues) :
               call.eigenvalues[i] * ThreshDen >= Val(call.min_eigval)})

\* a call with an eigenvalue equal to the threshold and one below it
C3_Witness ==
    /\ call.op = "set_n_eigs" /\ call.done /\ call.method = "value"
    /\ \E i \in 1..Len(call.eigenvalues) :
           call.eigenvalues[i] * ThreshDen = Val(call.min_eigval)
    /\ \E i \in 1..Len(call.eigenvalues) :
           call.eigenvalues[i] * ThreshDen < Val(call.min_eigval)
    /\ call.ret >= 1

\* C4: set_n_eigs with method 'proportion' returns the number of leading
\* eigenvalues whose cumulative normalized sum (running sum over the sum of
\* all eigenvalues) is <= min_eigval; a cumulative sum equal to the threshold
\* is counted.
C4_ProportionCount ==
    (call.op = "set_n_eigs" /\ call.done /\ call.method = "proportion") =>
        LET e     == call.eigenvalues
            total == SumRange(e, 1, Len(e))
            below == {i \in 1..Len(e) :
                         /\ total > 0
                         /\ SumRange(e, 1, i) * ThreshDen
                                <= Val(call.min_eigval) * total}
        IN  /\ call.raised = ""
            /\ call.ret = Cardinality(below)
            /\ below = 1..call.ret

\* a call whose cumulative sum meets the threshold exactly at the last
\* counted eigenvalue, with more eigenvalues after it
C4_Witness ==
    /\ call.op = "set_n_eigs" /\ call.done /\ call.method = "proportion"
    /\ call.ret >= 1
    /\ call.ret < Len(call.eigenvalues)
    /\ SumRange(call.eigenvalues, 1, call.ret) * ThreshDen
           = Val(call.min_eigval) * SumRange(call.eigenvalues, 1,
                                             Len(call.eigenvalues))

\* C5: with eigen_cut_method 'proportion' (and a proportion of at most 1), the
\* first n_eigs eigenvalues selected by compute_pca together describe at
\* least the proportion min_eigval of the variance.
C5_ProportionReached ==
    (/\ Succeeded /\ call.n_eigs.auto /\ call.method = "proportion"
     /\ Val(call.min_eigval) <= ThreshDen) =>
        LET e == Val(eigvals)
        IN  SumRange(e, 1, Val(n_eigs)) * ThreshDen
                >= Val(call.min_eigval) * SumRange(e, 1, Len(e))

\* C6: with mean_sub = False and eigen_cut_method 'proportion', n_eigs is the
\* count given by the cumulative proportions of the eigenvalues without the
\* first one (the eigenvalues that make up total_variance); stated for a
\* positive total_variance.
C6_FirstEigenvalueExcluded ==
    (/\ Succeeded /\ call.n_eigs.auto /\ call.method = "proportion"
     /\ ~call.mean_sub /\ Val(total_variance) > 0) =>
        LET e     == Val(eigvals)
            total == SumRange(e, 2, Len(e))
        IN  Val(n_eigs) = Cardinality({i \in 2..Len(e) :
                /\ total > 0
                /\ SumRange(e, 2, i) * ThreshDen
                       <= Val(call.min_eigval) * total})

\* C7 (as amended): after compute_pca, total_variance is the sum of the
\* eigenvalues from index 0 (mean_sub) or from index 1 (not mean_sub), and
\* var_proportion is the sum of the eigenvalues at indices 0..n_eigs-1
\* (mean_sub) or 1..n_eigs-1 (not mean_sub: n_eigs - 1 eigenvalues), divided
\* by total_variance.
C7_VarianceTotals ==
    Succeeded =>
        LET e     == Val(eigvals)
            first == IF Val(mean_sub) THEN 1 ELSE 2
            total == SumRange(e, first, Len(e))
        IN  /\ total_variance = Some(total)
            /\ QSame(Val(var_prop),
                     Quot(SumRange(e, first, Val(n_eigs)), total))

\* a decomposition without mean subtraction that keeps two or more modes, not
\* all of the variance
C7_Witness ==
    /\ Succeeded
    /\ ~Val(mean_sub)
    /\ Val(n_eigs) >= 2
    /\ Val(var_prop).num > 0
    /\ Val(var_prop).num < Val(var_prop).den

\* C7 (as claimed): var_proportion is the sum of n_eigs eigenvalues counted
\* from the starting index (index 0 when mean_sub, index 1 when not), divided
\* by total_variance.
C7_Original ==
    Succeeded =>
        LET e     == Val(eigvals)
            first == IF Val(mean_sub) THEN 1 ELSE 2
            total == SumRange(e, first, Len(e))
        IN  /\ total_variance = Some(total)
            /\ QSame(Val(var_prop),
                     Quot(SumRange(e, first, first + Val(n_eigs) - 1), total))

\* C8: after every successful compute_pca with n_eigs no larger than the
\* number of modes from the starting index, 0 <= var_proportion <= 1.
C8_VarProportionBounded ==
    (/\ Succeeded
     /\ Val(n_eigs) <= spectral_shape - (IF Val(mean_sub) THEN 0 ELSE 1)) =>
        /\ Val(var_prop).den # 0
        /\ 0 <= Val(var_prop).num * Val(var_prop).den
        /\ Val(var_prop).num * Val(var_prop).den
               <= Val(var_prop).den * Val(var_prop).den

\* C9: for a fixed eigenvalue array set_n_eigs is monotone in its threshold:
\* with 'value' a larger min_eigval never yields a larger count, with
\* 'proportion' a larger min_eigval never yields a smaller count.
C9_Monotone ==
    (call.op = "set_n_eigs") =>
        \A p1, p2 \in Thresholds :
            (p1 <= p2) =>
                /\ set_n_eigs(call.eigenvalues, p1, "value").ret
                       >= set_n_eigs(call.eigenvalues, p2, "value").ret
                /\ set_n_eigs(call.eigenvalues, p1, "proportion").ret
                       <= set_n_eigs(call.eigenvalues, p2, "proportion").ret

\* a completed call on an array for which two thresholds give strictly
\* different counts under both methods
C9_Witness ==
    /\ call.op = "set_n_eigs" /\ call.done
    /\ \E p1, p2 \in Thresholds :
           /\ p1 < p2
           /\ p1 = Val(call.min_eigval)
           /\ set_n_eigs(call.eigenvalues, p1, "value").ret
                  > set_n_eigs(call.eigenvalues, p2, "value").ret
           /\ set_n_eigs(call.eigenvalues, p1, "proportion").ret
                  < set_n_eigs(call.eigenvalues, p2, "proportion").ret

\* C10: a compute_pca call rejected for a malformed mode selection mutates no
\* pipeline state: cov_matrix, eigvals, eigvecs, n_eigs, the variance totals
\* and the decomposition-only flag are what they were before the call.
C10_RejectedCallMutatesNothing ==
    [][(call'.op = "compute_pca" /\ call'.raised # "")
          => UNCHANGED pca_state]_vars

\* what a rejected compute_pca does leave alone: the stored decomposition
RejectedCallKeepsDecomposition ==
    [][(call'.op = "compute_pca" /\ call'.raised # "")
          => UNCHANGED <<n_eigs, total_variance, var_prop, eigvals, eigvecs,
                         mean_sub>>]_vars

\* var_proportion lies in [0, 1] whenever total_variance is positive
VarProportionBoundedWhenDefined ==
    (Succeeded /\ Val(total_variance) > 0) =>
        /\ 0 <= Val(var_prop).num
        /\ Val(var_prop).num <= Val(var_prop).den

\* the modes whose four width values are all finite, counted from the stored
\* arrays
FinitePoints ==
    { i \in 1..Len(Val(spatial_width)) :
        /\ Val(spatial_width)[i]
        /\ Val(spatial_width_error)[i]
        /\ Val(spectral_width)[i]
        /\ Val(spectral_width_error)[i] }

WidthsStored ==
    /\ IsSet(spatial_width) /\ IsSet(spatial_width_error)
    /\ IsSet(spectral_width) /\ IsSet(spectral_width_error)
    /\ Len(Val(spatial_width)) = Len(Val(spatial_width_error))
    /\ Len(Val(spatial_width)) = Len(Val(spectral_width))
    /\ Len(Val(spatial_width)) = Len(Val(spectral_width_error))

\* C11: a fit_plaw call with a fit_method other than 'odr' and 'bayes' raises
\* and changes nothing on the object; the decomposition-only flag and the
\* recorded fit engine in particular keep their values.
C11_BadFitMethodMutatesNothing ==
    [][(call'.op = "fit_plaw" /\ call'.raised = "TypeError")
          => UNCHANGED <<pca_state, width_state, fit_state>>]_vars

\* C12: fit_plaw keeps exactly the modes whose spatial width, spectral width
\* and both errors are all finite; with fewer than 2 of them it raises and
\* stores no fit, with 2 to 4 it fits and warns, with 5 or more it fits and
\* does not warn.
C12_FinitePointsDecideTheFit ==
    [][(/\ call'.op = "fit_plaw"
        /\ call'.args.fit_method \in {"odr", "bayes"}
        /\ WidthsStored)
          => LET n == Cardinality(FinitePoints)
                 fitted == /\ call'.raised = ""
                           /\ IsSet(index') /\ IsSet(intercept')
                           /\ { call'.out.kept[i] + 1 :
                                  i \in 1..Len(call'.out.kept) } = FinitePoints
                           /\ Len(call'.out.kept) = n
             IN  /\ n < 2 => /\ call'.raised = "Warning"
                             /\ UNCHANGED <<index, index_error_range, intercept,
                                            intercept_error_range, samps>>
                 /\ (n >= 2 /\ n < 5) => fitted /\ call'.out.warned
                 /\ n >= 5 => fitted /\ ~call'.out.warned]_vars

C12_Witness ==
    /\ call.op = "fit_plaw"
    /\ call.raised = ""
    /\ call.out.warned
    /\ IsSet(index)
    /\ Len(call.out.kept) < Len(Val(spatial_width))

C12_WitnessNoWarning ==
    /\ call.op = "fit_plaw"
    /\ call.raised = ""
    /\ ~call.out.warned
    /\ Len(call.out.kept) >= 5

\* C14: the gamma correction of a value below 0.67 is (value - 0.32) / 0.59
\* and of a value of 0.67 or more, 0.67 itself included, is
\* (value - 0.03) / 1.07; PCA.gamma is this correction of the fitted index.
C14_GammaPiecewise ==
    (call.op = "gamma" /\ call.raised = "")
        => /\ Val(index) < 67 => call.out.num * 59 = (Val(index) - 32) * call.out.den
           /\ Val(index) >= 67 => call.out.num * 107 = (Val(index) - 3) * call.out.den
           /\ call.out.den > 0

C14_Witness ==
    /\ call.op = "gamma"
    /\ call.raised = ""
    /\ Val(index) = 67
    /\ call.out = Quot(64, 107)

\* C15: on the Bayesian path sonic_length computes one lambda per posterior
\* sample, from that sample's own slope (gamma-corrected when use_gamma is
\* set) and own intercept, and returns the 15th and 85th percentiles of these
\* lambdas as the error range.
C15_PerSampleLambda ==
    (/\ call.op = "sonic_length"
     /\ call.raised = ""
     /\ Val(fit_method) = "bayes")
        => LET slopes == Val(samps)[1]
               own == [i \in 1..Len(slopes) |->
                         PowerExponent(call.args.log_cs, Val(samps)[2][i],
                            IF call.args.use_gamma
                            THEN brunt_index_correct(slopes[i])
                            ELSE Quot(slopes[i], IndexDen))]
           IN  /\ call.out.path = "percentile"
               /\ Len(call.out.all_lambds) = Len(slopes)
               /\ \A i \in 1..Len(slopes) : QSame(call.out.all_lambds[i], own[i])
               /\ \A i \in 1..2 :
                     LET p == np_percentile(own, Percentiles[i])
                         r == call.out.lambd_error_range[i]
                     IN  QSame(r.lo, p.lo) /\ QSame(r.hi, p.hi)
                         /\ QSame(r.frac, p.frac)

\* distance_metric has run on the PCA_Distance object
Measured == IsSet(dist) /\ IsSet(Val(dist).distance)

\* the normalized eigenvalues of a pipeline that the claim names: 1-based
\* positions first..n_eigs of its eigenvalues, each over their sum
RetainedSum(pca, first) == SumRange(pca.eigvals, first, pca.n_eigs)

\* C16: distance_metric takes each pipeline's retained eigenvalues (indices
\* 0..n_eigs-1 with mean subtraction, 1..n_eigs-1 without), divides each
\* vector by its own sum, and sets distance to the Euclidean norm of the
\* difference of the two normalized vectors.
C16_DistanceOfRetained ==
    Measured =>
        LET d == Val(dist)
            first == IF d.mean_sub THEN 1 ELSE 2
            s1 == RetainedSum(d.pca1, first)
            s2 == RetainedSum(d.pca2, first)
            sq == np_sum([i \in 1..d.pca1.n_eigs |->
                     IF i < first THEN 0
                     ELSE (d.pca1.eigvals[i] * s2 - d.pca2.eigvals[i] * s1)
                          * (d.pca1.eigvals[i] * s2 - d.pca2.eigvals[i] * s1)])
        IN  /\ d.pca1.n_eigs = d.pca2.n_eigs
            /\ IF d.pca1.n_eigs < first
               THEN QSame(Val(d.distance), Quot(0, 1))
               ELSE QSame(Val(d.distance), Quot(sq, s1 * s2 * s1 * s2))

\* the same for a PCA_Distance built with a positive n_eigs
DistanceOfRetainedPositive ==
    (Measured /\ Val(dist).n_eigs > 0) => C16_DistanceOfRetained

\* C17: the distance is symmetric and zero on identical inputs: for the two
\* cubes in either order, decomposed with the same n_eigs and mean_sub, the
\* distances are the same number, and the distance of a cube to itself is 0.
C17_SymmetricAndZero ==
    Measured =>
        LET d == Val(dist)
            swapped == [d EXCEPT !.pca1 = d.pca2, !.pca2 = d.pca1]
            same == [d EXCEPT !.pca2 = d.pca1]
        IN  /\ Val(d.distance).den # 0
            /\ QSame(Val(d.distance), Distance(swapped))
            /\ Distance(same).den # 0
            /\ Distance(same).num = 0

\* the same where the compared eigenvalues of both pipelines have a non-zero
\* sum, or there are none to compare
SymmetricAndZeroWhenNormalizable ==
    (/\ Measured
     /\ \A p \in {Val(dist).pca1, Val(dist).pca2} :
           LET e == Slicer(Val(dist), p.eigvals)
           IN  Len(e) = 0 \/ np_sum(e) # 0)
        => C17_SymmetricAndZero

\* the 0-based indices of the stored eigenvalues at or above the floor
ValidModes == { i \in 0..(Len(Val(eigvals)) - 1) : Val(eigvals)[i + 1] >= 1 }

\* C18: eigimages(n) synthesizes, in request order, the modes 0..n-1 when
\* n > 0, and when n < 0 the last |n| valid modes (all of them when there are
\* fewer), a mode being valid iff its eigenvalue is at or above the floor;
\* a mode below the floor is never selected on the negative path.
C18_ModesSynthesized ==
    (/\ call.op = "eigimages"
     /\ call.raised = ""
     /\ call.args.n_eigs # None)
        => LET n == Val(call.args.n_eigs)
               modes == call.out.modes
           IN  /\ n > 0 => modes = [i \in 1..n |-> i - 1]
               /\ n < 0 =>
                    /\ \A i \in 1..Len(modes) : modes[i] \in ValidModes
                    /\ \A i \in 1..(Len(modes) - 1) : modes[i] < modes[i + 1]
                    /\ Len(modes) = Min2(0 - n, Cardinality(ValidModes))
                    /\ \A v \in ValidModes :
                          (\A i \in 1..Len(modes) : modes[i] # v)
                              => \A i \in 1..Len(modes) : v < modes[i]
               /\ Len(call.out.images) = Len(modes)

C18_Witness ==
    /\ call.op = "eigimages"
    /\ call.raised = ""
    /\ call.args.n_eigs = Some(0 - 1)
    /\ call.out.modes = <<1>>
    /\ Val(eigvals) = <<1, 1, 0>>

\* C19: noise_ACF with a negative n_eigs returns the average of the
\* autocorrelation images of the selected noise modes: their sum across the
\* mode axis divided by |n_eigs|, a positive divisor, so that the result has
\* the sign of the summed ACF.
C19_NoiseAverage ==
    (/\ call.op = "noise_ACF"
     /\ call.raised = ""
     /\ call.args.n_eigs # None
     /\ Val(call.args.n_eigs) < 0)
        => LET n == Val(call.args.n_eigs)
               summed == SumRange([i \in 1..Len(Val(eigvals)) |->
                                     IF \E j \in 1..Len(call.out.modes) :
                                           call.out.modes[j] = i - 1
                                     THEN Val(eigvals)[i] ELSE 0],
                                  1, Len(Val(eigvals)))
           IN  /\ QSame(call.out.noise_ACF, Quot(summed, 0 - n))
               /\ summed > 0 =>
                     call.out.noise_ACF.num * call.out.noise_ACF.den > 0

\* C13: a fit_plaw call that fails for fewer than 2 valid points leaves the
\* covariance matrix, the eigenvalues, n_eigs, the widths and the stored fit
\* (recorded fit engine, index, intercept, error ranges, posterior samples,
\* fit-done flag) as before the call, so that a later sonic_length takes the
\* error path of the engine that produced the stored fit: the quadrature
\* path if and only if the stored index is the ODR engine's.
C13_FailedFitKeepsStoredFit ==
    [][/\ (call'.op = "fit_plaw" /\ call'.raised = "Warning")
            => UNCHANGED <<pca_state, width_state, fit_state>>
       /\ (call'.op = "sonic_length" /\ call'.raised = "")
            => ((call'.out.path = "quadrature")
                   <=> (index' = Some(env.odr.params[1])))]_vars

\* what a fit_plaw call failing for fewer than 2 valid points does keep: the
\* decomposition, the widths and the values of the stored fit
FailedFitKeepsFitValues ==
    [][(call'.op = "fit_plaw" /\ call'.raised = "Warning")
          => UNCHANGED <<cov_matrix, n_eigs, total_variance, var_prop,
                         eigvals, eigvecs, mean_sub, width_state, index,
                         index_error_range, intercept, intercept_error_range,
                         samps>>]_vars

\* beam correction is requested by the call and no beam can be resolved
NoBeamFor(c) ==
    /\ c.args.brunt_beamcorrect
    /\ c.args.beam_fwhm = None
    /\ ~env.beam

C20_WitnessDecompOnly ==
    /\ call.op = "run"
    /\ call.args.decomp_only
    /\ call.args.brunt_beamcorrect
    /\ ~env.beam
    /\ call.raised = ""

\* C21: after a PCA object is constructed its cube holds no non-finite
\* sample: every sample that was NaN, +inf or -inf in the input holds the
\* machine epsilon of the dtype (not zero), and every finite sample is as it
\* was in the input.
C21_NoNonFiniteSample ==
    (call.op = "PCA" /\ call.done /\ call.raised = "")
        => \A i \in 1..Len(call.args.cube) :
              IF call.args.cube[i].cls = "number"
              THEN data[i] = call.args.cube[i]
              ELSE data[i] = Float(0, 1)

\* the same of the NaN samples alone: a NaN sample holds the machine epsilon
\* and every other sample is as it was
NaNSamplesPatched ==
    (call.op = "PCA" /\ call.done /\ call.raised = "")
        => \A i \in 1..Len(call.args.cube) :
              IF call.args.cube[i].cls = "nan"
              THEN data[i] = Float(0, 1)
              ELSE data[i] = call.args.cube[i]

\* a <= b for quotients that are numbers
QLeq(a, b) == a.den # 0 /\ b.den # 0 /\ ~QLess(b, a)

\* C28: the gamma correction is monotone non-decreasing over all index
\* values, across the 0.67 break included, so whenever index_error_range[0]
\* <= index <= index_error_range[1] the independently corrected bounds
\* satisfy gamma_error_range[0] <= gamma <= gamma_error_range[1].
C28_GammaRangeBracketsGamma ==
    (call.op = "gamma_error_range" /\ call.raised = "")
        => /\ \A a, b \in 0..(3 * IndexDen) :
                 a <= b => QLeq(brunt_index_correct(a), brunt_index_correct(b))
           /\ QLeq(Quot(BreakIndex - LowOffset, LowSlope),
                   brunt_index_correct(BreakIndex))
           /\ (/\ Val(index_error_range)[1] <= Val(index)
               /\ Val(index) <= Val(index_error_range)[2])
                 => /\ QLeq(call.out[1], brunt_index_correct(Val(index)))
                    /\ QLeq(brunt_index_correct(Val(index)), call.out[2])

\* the error range of an index below the break reaches across it
C28_Witness ==
    /\ call.op = "gamma_error_range"
    /\ call.raised = ""
    /\ Val(index) < BreakIndex
    /\ Val(index_error_range)[1] < Val(index)
    /\ Val(index_error_range)[2] > BreakIndex
    /\ QLess(call.out[1], call.out[2])

\* C29: on the ODR path the interval sonic_length returns is ordered and
\* brackets the point estimate, low <= lambda <= high, for every fitted index
\* used (raw index or gamma), a negative gamma obtained from an index below
\* 0.32 included.
C29_OdrIntervalOrdered ==
    (/\ call.op = "sonic_length"
     /\ call.raised = ""
     /\ call.out.path = "quadrature")
        => call.out.lambd_error_range.lambd_error_sign >= 0

\* the same for a positive index used
OdrIntervalOrderedPositiveIndex ==
    (/\ call.op = "sonic_length"
     /\ call.raised = ""
     /\ call.out.path = "quadrature"
     /\ QSign(call.out.lambd_error_range.index) > 0)
        => call.out.lambd_error_range.lambd_error_sign >= 0

\* C24: autocorr_spec(n) returns one autocorrelation vector per selected
\* eigenvector: for n > 0 those of the first n eigenvectors, and for a
\* negative n the last -n autocorrelation vectors (the call returns -n vectors
\* rather than failing).
C24_OneVectorPerEigenvector ==
    (/\ call.op = "autocorr_spec"
     /\ call.args.n_eigs # None
     /\ IsSet(eigvecs)
     /\ Val(call.args.n_eigs) # 0
     /\ Val(call.args.n_eigs) <= Len(Val(eigvecs))
     /\ 0 - Val(call.args.n_eigs) <= Len(Val(eigvecs)))
        => LET n == Val(call.args.n_eigs)
           IN  /\ call.raised = ""
               /\ n > 0 => call.out.modes = [i \in 1..n |-> i - 1]
               /\ n < 0 => call.out.modes =
                              [i \in 1..(0 - n) |-> Len(Val(eigvecs)) + n + i - 1]

\* the same for two eigenvectors or more, counted from the first
VectorPerEigenvectorFromTwo ==
    (/\ call.op = "autocorr_spec"
     /\ call.args.n_eigs # None
     /\ IsSet(eigvecs)
     /\ Val(call.args.n_eigs) >= 2
     /\ Val(call.args.n_eigs) <= Len(Val(eigvecs)))
        => /\ call.raised = ""
           /\ call.out.modes = [i \in 1..Val(call.args.n_eigs) |-> i - 1]

\* C30: autocorr_images(n) returns exactly one autocorrelation image per
\* requested eigenimage for every n >= 1, n = 1 included, where eigimages
\* returns a single 2D image.
C30_OneImagePerEigenimage ==
    (/\ call.op = "autocorr_images"
     /\ call.args.n_eigs # None
     /\ IsSet(eigvecs)
     /\ Val(call.args.n_eigs) >= 1
     /\ Val(call.args.n_eigs) <= Len(Val(eigvecs)))
        => /\ call.raised = ""
           /\ Len(call.out.acors) = Val(call.args.n_eigs)
           /\ call.out.modes = [i \in 1..Val(call.args.n_eigs) |-> i - 1]

\* the same for two eigenimages or more
ImagePerEigenimageFromTwo ==
    (/\ call.op = "autocorr_images"
     /\ call.args.n_eigs # None
     /\ IsSet(eigvecs)
     /\ Val(call.args.n_eigs) >= 2
     /\ Val(call.args.n_eigs) <= Len(Val(eigvecs)))
        => /\ call.raised = ""
           /\ Len(call.out.acors) = Val(call.args.n_eigs)
           /\ call.out.modes = [i \in 1..Val(call.args.n_eigs) |-> i - 1]

\* C27: a PCA_Distance built with n_eigs = -1 compares every eigenvalue the
\* two pipelines retained: the vectors normalized in distance_metric have the
\* length of each pipeline's n_eigs (less the excluded index 0 without mean
\* subtraction); the last eigenvalue is not dropped.
C27_AllRetainedCompared ==
    (Measured /\ call.op = "distance_metric" /\ Val(dist).n_eigs = 0 - 1)
        => LET d == Val(dist)
               skipped == IF d.mean_sub THEN 0 ELSE 1
           IN  /\ Len(call.out.sliced1) = d.pca1.n_eigs - skipped
               /\ Len(call.out.sliced2) = d.pca2.n_eigs - skipped
               /\ call.out.sliced1[Len(call.out.sliced1)]
                      = d.pca1.eigvals[Len(d.pca1.eigvals)]

\* the same for a positive n_eigs
AllRetainedComparedPositive ==
    (Measured /\ call.op = "distance_metric" /\ Val(dist).n_eigs > 0)
        => LET d == Val(dist)
               skipped == IF d.mean_sub THEN 0 ELSE 1
           IN  /\ Len(call.out.sliced1) = d.pca1.n_eigs - skipped
               /\ Len(call.out.sliced2) = d.pca2.n_eigs - skipped

\* all four width arrays exist
BothWidthSets ==
    /\ IsSet(spatial_width) /\ IsSet(spatial_width_error)
    /\ IsSet(spectral_width) /\ IsSet(spectral_width_error)

\* a decomposition and a mode selection exist
Decomposed == IsSet(eigvals) /\ IsSet(eigvecs) /\ IsSet(n_eigs)

\* C22: the pipeline steps are order-dependent: find_spatial_widths and
\* find_spectral_widths complete only if compute_pca has completed, fit_plaw
\* completes only if both width passes have completed; in every reachable
\* state a fit result exists only if both width sets exist, and width sets
\* exist only if a decomposition and a mode selection exist.
C22_StepsInOrder ==
    [][/\ (/\ call'.op \in {"find_spatial_widths", "find_spectral_widths"}
           /\ call'.raised = "") => Decomposed
       /\ (call'.op = "fit_plaw" /\ call'.raised = "") => BothWidthSets
       /\ IsSet(index') => BothWidthSets'
       /\ (IsSet(spatial_width') \/ IsSet(spectral_width')) => Decomposed']_vars

\* a fit completed by separate calls of the steps
C22_Witness ==
    /\ call.op = "fit_plaw"
    /\ call.raised = ""
    /\ IsSet(index)
    /\ BothWidthSets
    /\ Decomposed

\* a width pass refused on an object whose only decomposition was refused
C22_WitnessRefused ==
    /\ call.op = "find_spectral_widths"
    /\ call.raised = "AttributeError"
    /\ IsSet(cov_matrix)
    /\ ~IsSet(eigvals)
    /\ ~IsSet(spectral_width)

\* C25: stored widths belong to the current decomposition: whenever width
\* sets are stored, the number of spatial widths and the number of spectral
\* widths both equal the current n_eigs, after any sequence of compute_pca,
\* find_spatial_widths, find_spectral_widths and fit_plaw calls.
C25_WidthsOfCurrentDecomposition ==
    /\ IsSet(spatial_width) => Len(Val(spatial_width)) = Val(n_eigs)
    /\ IsSet(spectral_width) => Len(Val(spectral_width)) = Val(n_eigs)

\* what does hold: a width pass that completes stores one width per mode of
\* the decomposition current at that time
WidthPassStoresCurrentCount ==
    [][/\ (call'.op = "find_spatial_widths" /\ call'.raised = "")
            => Len(Val(spatial_width')) = Val(n_eigs')
       /\ (call'.op = "find_spectral_widths" /\ call'.raised = "")
            => Len(Val(spectral_width')) = Val(n_eigs')]_vars

\* C26: after a successful compute_pca, through any sequence of compute_pca
\* and run calls and assignments to the n_eigs property, n_eigs is an integer
\* with 1 <= n_eigs <= number of spectral channels; an assignment or automatic
\* cut that would violate this is rejected and leaves n_eigs unchanged.
C26_NEigsInRange ==
    IsSet(eigvals) =>
        /\ IsSet(n_eigs)
        /\ 1 <= Val(n_eigs)
        /\ Val(n_eigs) <= spectral_shape

\* what does hold: n_eigs is at least 1, and a refused assignment or
\* decomposition leaves it as it was
NEigsPositive ==
    [][/\ IsSet(n_eigs') => Val(n_eigs') >= 1
       /\ (call'.op \in {"n_eigs.setter", "compute_pca"} /\ call'.raised # "")
            => UNCHANGED n_eigs]_vars

====
